---- MODULE Spec2Model ----
(***************************************************************************)
(* Duplicate-file finder (src/main.cpp): a file is fingerprinted as the    *)
(* sequence of the CRC-32 checksums of its zero-padded blocks (readFile),  *)
(* directory entries are filtered (processFile), and the fingerprinted     *)
(* files are compared pairwise and grouped (findDuplicates).               *)
(*                                                                         *)
(* A byte is a number in 0..255.  A uint32_t is the pair <<hi, lo>> of its *)
(* 16-bit halves.  A filename is a sequence of one-character strings and a *)
(* path is a sequence of filenames.                                        *)
(***************************************************************************)
EXTENDS Integers, Sequences, FiniteSets, TLC

VARIABLES
    \* the file system the program runs on
    fsContent,      \* the bytes of every regular file
    unreadable,     \* the regular files that cannot be opened
    \* what main reads from std::cin
    directories,    \* std::vector<fs::path> directories
    exclusions,     \* std::vector<fs::path> exclusions, as the set std::find searches
    scanLevel,      \* int scanLevel
    maskString,     \* std::string maskString, as entered
    blockSize,      \* size_t blockSize
    \* main and findDuplicates
    pc,             \* where the program is
    maskRegex,      \* std::regex maskRegex
    dirIndex,       \* position of the loop over directories
    pending,        \* entries the open directory iterator has still to yield
    allFiles,       \* std::map<fs::path, std::vector<uint32_t>> allFiles
    it1, it2,       \* the two iterators of the comparison loops
    duplicates,     \* std::map<std::string, std::set<fs::path>> duplicates
    stdout,         \* the groups printed
    stderr,         \* the messages printed to std::cerr
    \* what has happened so far
    enumerated,     \* entries handed to processFile
    repeated,       \* entries handed to processFile more than once
    opened,         \* paths handed to readFile
    verdict,        \* for every entry processed, the branch processFile took
    \* readFile run on its own
    rd              \* the stream, buffer and hashes

inputVars == <<fsContent, unreadable, directories, exclusions, scanLevel, maskString,
               blockSize>>

progVars == <<pc, maskRegex, dirIndex, pending, allFiles, it1, it2, duplicates,
              stdout, stderr, enumerated, repeated, opened, verdict>>

vars == <<inputVars, progVars, rd>>

----------------------------------------------------------------------------
(* Bounds of the model.                                                    *)

\* longest file content of the fingerprinter runs, in bytes
MaxLen == 3
\* largest block size entered
MaxBlock == 2

\* byte values of the file contents of the fingerprinter runs
Bytes == {0, 88}

Min(a, b) == IF a <= b THEN a ELSE b

RECURSIVE SeqsUpTo(_, _)
SeqsUpTo(S, n) ==
    IF n = 0 THEN {<<>>}
    ELSE LET shorter == SeqsUpTo(S, n - 1)
         IN  shorter \cup {Append(s, x) : s \in {t \in shorter : Len(t) = n - 1}, x \in S}

----------------------------------------------------------------------------
(* boost::crc_32_type: the reflected CRC-32 with polynomial 0xEDB88320,    *)
(* initial remainder and final xor 0xFFFFFFFF, one table lookup per byte.  *)

RECURSIVE Xor(_, _)
Xor(a, b) ==
    IF a = 0 THEN b
    ELSE IF b = 0 THEN a
    ELSE ((a + b) % 2) + 2 * Xor(a \div 2, b \div 2)

XorWord(x, y) == <<Xor(x[1], y[1]), Xor(x[2], y[2])>>

ShiftRight1(x) == <<x[1] \div 2, (x[2] \div 2) + (x[1] % 2) * 32768>>

ShiftRight8(x) == <<x[1] \div 256, (x[2] \div 256) + (x[1] % 256) * 256>>

\* 0xEDB88320
Polynomial == <<60856, 33568>>

\* 0xFFFFFFFF
AllOnes == <<65535, 65535>>

RECURSIVE TableEntry(_, _)
TableEntry(c, k) ==
    IF k = 0 THEN c
    ELSE TableEntry(IF c[2] % 2 = 1 THEN XorWord(Polynomial, ShiftRight1(c))
                                    ELSE ShiftRight1(c),
                    k - 1)

crcTable == [n \in 0..255 |-> TableEntry(<<0, n>>, 8)]

RECURSIVE ProcessBytes(_, _)
ProcessBytes(rem, data) ==
    IF data = <<>> THEN rem
    ELSE ProcessBytes(XorWord(crcTable[Xor(rem[2] % 256, Head(data))], ShiftRight8(rem)),
                      Tail(data))

\* crc.process_bytes(data.data(), data.size()); return crc.checksum();
calculateCRC32(data) == XorWord(ProcessBytes(AllOnes, data), AllOnes)

----------------------------------------------------------------------------
(* readFile: the read loop over a std::ifstream.                           *)

\* std::string::resize(n, c)
Resize(s, n, c) ==
    IF n <= Len(s) THEN SubSeq(s, 1, n)
    ELSE s \o [i \in 1..(n - Len(s)) |-> c]

\* std::ifstream file(filePath, std::ios::binary) on a file that opens
OpenStream(content) == [content |-> content, pos |-> 0, good |-> TRUE, gcount |-> 0]

\* std::string buffer(blockSize, '\0') and the empty hashSequence
ReadStart(content, S) ==
    [file |-> OpenStream(content), buffer |-> Resize(<<>>, S, 0), hashSequence |-> <<>>]

\* file.read(&buffer[0], blockSize): on a stream that is not good nothing is
\* extracted; otherwise up to n bytes are copied over the front of the buffer,
\* and eofbit and failbit are set when fewer than n were there.
StreamRead(st, n) ==
    LET f == st.file
        k == IF f.good THEN Min(n, Len(f.content) - f.pos) ELSE 0
    IN  [st EXCEPT !.file = [f EXCEPT !.pos = @ + k, !.gcount = k,
                                      !.good = f.good /\ k = n],
                   !.buffer = SubSeq(f.content, f.pos + 1, f.pos + k)
                                \o SubSeq(st.buffer, k + 1, Len(st.buffer))]

\* the loop condition without its second operand: a short last read ends the loop
LoopConditionReadOnly(st) == st.file.good

\* file.read(...) || file.gcount() > 0, on the state the read left
LoopCondition(st) == st.file.good \/ st.file.gcount > 0

\* the buffer hashed as the read left it, without the two resizes
PadBufferStale(buffer, bytesRead, S) == buffer

\* the two resizes: to the bytes read, then back to blockSize with zeros
PadBuffer(buffer, bytesRead, S) ==
    LET cut == Resize(buffer, bytesRead, 0)
    IN  IF bytesRead < S THEN Resize(cut, S, 0) ELSE cut

\* the body of the while loop
LoopBody(st, S) ==
    LET bytesRead == st.file.gcount
        padded    == PadBuffer(st.buffer, bytesRead, S)
    IN  [st EXCEPT !.buffer = padded,
                   !.hashSequence = Append(@, calculateCRC32(padded))]

RECURSIVE ReadLoop(_, _)
ReadLoop(st, S) ==
    LET r == StreamRead(st, S)
    IN  IF LoopCondition(r) THEN ReadLoop(LoopBody(r, S), S) ELSE r.hashSequence

\* readFile on a file that opens, for blockSize > 0 (with blockSize = 0 every
\* read of 0 bytes succeeds and the loop does not end)
readFile(content, S) == ReadLoop(ReadStart(content, S), S)

----------------------------------------------------------------------------
(* The fingerprinter on its own: readFile run on two files A and B, one    *)
(* loop iteration per step.                                                *)

ReadIdle == [k |-> 0]

\* the program is not run in the fingerprinter runs
ProgramIdle ==
    /\ fsContent = <<>> /\ unreadable = {} /\ directories = <<>> /\ exclusions = {}
    /\ scanLevel = 0 /\ maskString = <<>>
    /\ pc = "idle" /\ maskRegex = <<>> /\ dirIndex = 0 /\ pending = {}
    /\ allFiles = <<>> /\ it1 = 0 /\ it2 = 0 /\ duplicates = <<>>
    /\ stdout = <<>> /\ stderr = {} /\ enumerated = {} /\ repeated = {}
    /\ opened = {} /\ verdict = <<>>

InitRead ==
    /\ ProgramIdle
    /\ blockSize \in 1..MaxBlock
    /\ \E a \in SeqsUpTo(Bytes, MaxLen), b \in SeqsUpTo(Bytes, MaxLen) :
          rd = [k |-> 1, files |-> <<a, b>>, iterations |-> 0,
                st |-> ReadStart(a, blockSize), result |-> <<>>]

\* the loop condition holds: one more block is hashed
ReadIterate ==
    /\ rd.k \in {1, 2}
    /\ LET r == StreamRead(rd.st, blockSize)
       IN  /\ LoopCondition(r)
           /\ rd' = [rd EXCEPT !.st = LoopBody(r, blockSize), !.iterations = @ + 1]
    /\ UNCHANGED <<inputVars, progVars>>

\* the loop condition fails: return hashSequence, and go on to the next file
ReadReturn ==
    /\ rd.k \in {1, 2}
    /\ LET r == StreamRead(rd.st, blockSize)
       IN  /\ ~LoopCondition(r)
           /\ rd' = [rd EXCEPT !.k = @ + 1,
                               !.iterations = 0,
                               !.result = Append(@, r.hashSequence),
                               !.st = IF rd.k = 1 THEN ReadStart(rd.files[2], blockSize)
                                                  ELSE r]
    /\ UNCHANGED <<inputVars, progVars>>

NextRead == ReadIterate \/ ReadReturn

SpecRead == InitRead /\ [][NextRead]_vars

----------------------------------------------------------------------------
(* The file system of the program runs: the directory r holds the files    *)
(* a.t and b.tx and the directory d; d holds the file A.T and the          *)
(* directory e; e holds the file at.  Nothing is named x.                  *)

Root == << <<"r">> >>
DirD == << <<"r">>, <<"d">> >>
DirE == << <<"r">>, <<"d">>, <<"e">> >>
FileA == << <<"r">>, <<"a", ".", "t">> >>
FileB == << <<"r">>, <<"b", ".", "t", "x">> >>
FileC == << <<"r">>, <<"d">>, <<"A", ".", "T">> >>
FileD == << <<"r">>, <<"d">>, <<"e">>, <<"a", "t">> >>
\* a path that names nothing
Missing == << <<"x">> >>
\* the directory r, spelled ./r
DotRoot == << <<".">>, <<"r">> >>

DirNodes == {Root, DirD, DirE}
FileNodes == {FileA, FileB, FileC, FileD}

\* the file a spelled path names: the components "." name the directory itself
Resolve(p) == SelectSeq(p, LAMBDA c : c # <<".">>)

IsPrefix(d, p) == Len(d) <= Len(p) /\ SubSeq(p, 1, Len(d)) = d

\* fs::exists(dir)
exists(p) == Resolve(p) \in DirNodes \cup FileNodes
\* fs::is_directory(dir)
is_directory(p) == Resolve(p) \in DirNodes
\* entry.is_regular_file()
is_regular_file(p) == Resolve(p) \in FileNodes
\* entry.path().parent_path()
parent_path(p) == SubSeq(p, 1, Len(p) - 1)
\* entry.path().filename()
filename(p) == p[Len(p)]

\* the entries fs::directory_iterator(dir) yields: dir / name for each child
directory_iterator(dir) ==
    {dir \o SubSeq(n, Len(Resolve(dir)) + 1, Len(n)) :
        n \in {m \in DirNodes \cup FileNodes :
                  IsPrefix(Resolve(dir), m) /\ Len(m) = Len(Resolve(dir)) + 1}}

\* the entries fs::recursive_directory_iterator(dir) yields: every descendant
recursive_directory_iterator(dir) ==
    {dir \o SubSeq(n, Len(Resolve(dir)) + 1, Len(n)) :
        n \in {m \in DirNodes \cup FileNodes :
                  IsPrefix(Resolve(dir), m) /\ Len(m) > Len(Resolve(dir))}}

\* The entries an iterator may yield next: it yields a directory's entries in no
\* specified order, and the recursive one goes through a directory it has
\* yielded before it goes on with that directory's siblings.
NextEntries(left) ==
    LET ready == {e \in left : parent_path(e) \notin left}
    IN  {e \in ready : \A o \in ready : Len(o) <= Len(e)}

----------------------------------------------------------------------------
(* Characters, and the order of paths and of strings.                      *)

Code(c) ==
    CASE c = "$" -> 36 [] c = "*" -> 42 [] c = "." -> 46 [] c = "?" -> 63
      [] c = "A" -> 65 [] c = "T" -> 84 [] c = "[" -> 91 [] c = "^" -> 94
      [] c = "a" -> 97 [] c = "b" -> 98 [] c = "d" -> 100 [] c = "e" -> 101
      [] c = "r" -> 114 [] c = "t" -> 116 [] c = "x" -> 120

\* std::regex_constants::icase: characters are compared with their case folded
Lower(c) == CASE c = "A" -> "a" [] c = "T" -> "t" [] c = "X" -> "x" [] OTHER -> c

\* std::string::compare on byte values
RECURSIVE BytesLess(_, _)
BytesLess(a, b) ==
    IF b = <<>> THEN FALSE
    ELSE IF a = <<>> THEN TRUE
    ELSE IF Head(a) # Head(b) THEN Head(a) < Head(b)
    ELSE BytesLess(Tail(a), Tail(b))

NameLess(a, b) == BytesLess([i \in 1..Len(a) |-> Code(a[i])], [i \in 1..Len(b) |-> Code(b[i])])

\* fs::path::compare: element by element, each element as a string
RECURSIVE PathLess(_, _)
PathLess(p, q) ==
    IF q = <<>> THEN FALSE
    ELSE IF p = <<>> THEN TRUE
    ELSE IF Head(p) # Head(q) THEN NameLess(Head(p), Head(q))
    ELSE PathLess(Tail(p), Tail(q))

RECURSIVE SortedPaths(_)
SortedPaths(S) ==
    IF S = {} THEN <<>>
    ELSE LET m == CHOOSE x \in S : \A y \in S \ {x} : PathLess(x, y)
         IN  <<m>> \o SortedPaths(S \ {m})

RECURSIVE SortedKeys(_)
SortedKeys(S) ==
    IF S = {} THEN <<>>
    ELSE LET m == CHOOSE x \in S : \A y \in S \ {x} : BytesLess(x, y)
         IN  <<m>> \o SortedKeys(S \ {m})

----------------------------------------------------------------------------
(* main: the file name mask and its regular expression.  The masks of the  *)
(* model are written with letters, ".", "*", "?" and "[".                  *)

\* size_t minSize = 1
minSize == 1

\* std::regex_replace(s, std::regex("\\c"), rep): every c is replaced by rep
RECURSIVE regex_replace(_, _, _)
regex_replace(s, c, rep) ==
    IF s = <<>> THEN <<>>
    ELSE (IF Head(s) = c THEN rep ELSE <<Head(s)>>) \o regex_replace(Tail(s), c, rep)

\* maskString = "^" + replace(*, .*); maskString = replace(?, .); maskString += "$"
MaskToRegex(mask) ==
    Append(regex_replace(<<"^">> \o regex_replace(mask, "*", <<".", "*">>), "?", <<".">>),
           "$")

\* std::regex maskRegex(maskString, icase) throws std::regex_error on a "[" that
\* no "]" closes
RegexCompiles(re) == \A i \in 1..Len(re) : re[i] # "["

\* the atoms of the expression: a character, with the "*" that follows it
RECURSIVE Atoms(_)
Atoms(re) ==
    IF re = <<>> THEN <<>>
    ELSE IF Len(re) >= 2 /\ re[2] = "*"
         THEN <<[ch |-> re[1], star |-> TRUE]>> \o Atoms(SubSeq(re, 3, Len(re)))
         ELSE <<[ch |-> re[1], star |-> FALSE]>> \o Atoms(Tail(re))

\* one character against one atom: "." is any character, others fold their case
AtomMatches(a, c) == a.ch = "." \/ Lower(a.ch) = Lower(c)

\* atoms i.. match s from position j to its end; "^" and "$" take no character
RECURSIVE MatchFrom(_, _, _, _)
MatchFrom(atoms, i, s, j) ==
    IF i > Len(atoms) THEN j > Len(s)
    ELSE LET a == atoms[i]
         IN  IF a.ch = "^" THEN j = 1 /\ MatchFrom(atoms, i + 1, s, j)
             ELSE IF a.ch = "$" THEN j = Len(s) + 1 /\ MatchFrom(atoms, i + 1, s, j)
             ELSE IF a.star
                  THEN \/ MatchFrom(atoms, i + 1, s, j)
                       \/ /\ j <= Len(s)
                          /\ AtomMatches(a, s[j])
                          /\ MatchFrom(atoms, i, s, j + 1)
                  ELSE /\ j <= Len(s)
                       /\ AtomMatches(a, s[j])
                       /\ MatchFrom(atoms, i + 1, s, j + 1)

\* std::regex_match(name, re): the whole name matches
regex_match(name, re) == MatchFrom(Atoms(re), 1, name, 1)

----------------------------------------------------------------------------
(* processFile, compareHashes and the maps of findDuplicates.              *)

\* the selector with the size compared by <=: a file of minSize bytes is rejected
SelectorSizeOffByOne(entry) ==
    IF ~is_regular_file(entry) THEN "not_regular"
    ELSE IF parent_path(entry) \in exclusions THEN "excluded"
    ELSE IF Len(fsContent[Resolve(entry)]) <= minSize THEN "too_small"
    ELSE IF ~regex_match(filename(entry), maskRegex) THEN "mask"
    ELSE "admit"

\* the selector without the check of the exclusions
SelectorNoExclusions(entry) ==
    IF ~is_regular_file(entry) THEN "not_regular"
    ELSE IF Len(fsContent[Resolve(entry)]) < minSize THEN "too_small"
    ELSE IF ~regex_match(filename(entry), maskRegex) THEN "mask"
    ELSE "admit"

\* the branch processFile takes on an entry, up to the call of readFile
Selector(entry) ==
    IF ~is_regular_file(entry) THEN "not_regular"
    ELSE IF parent_path(entry) \in exclusions THEN "excluded"
    ELSE IF Len(fsContent[Resolve(entry)]) < minSize THEN "too_small"
    ELSE IF ~regex_match(filename(entry), maskRegex) THEN "mask"
    ELSE "admit"

\* an insertion that never replaces: a second entry for a path that is there
MapInsertAlways(m, k, v) ==
    LET n == Cardinality({i \in 1..Len(m) : PathLess(m[i].path, k)})
    IN  SubSeq(m, 1, n) \o <<[path |-> k, hashes |-> v]>> \o SubSeq(m, n + 1, Len(m))

\* allFiles[path] = hashes on a map kept as its entries in key order
MapAssign(m, k, v) ==
    IF \E i \in 1..Len(m) : m[i].path = k
    THEN [i \in 1..Len(m) |-> IF m[i].path = k THEN [path |-> k, hashes |-> v] ELSE m[i]]
    ELSE LET n == Cardinality({i \in 1..Len(m) : PathLess(m[i].path, k)})
         IN  SubSeq(m, 1, n) \o <<[path |-> k, hashes |-> v]>> \o SubSeq(m, n + 1, Len(m))

\* the comparison of the sizes alone
compareSizes(hashes1, hashes2) == Len(hashes1) = Len(hashes2)

compareHashes(hashes1, hashes2) ==
    IF Len(hashes1) # Len(hashes2) THEN FALSE
    ELSE \A i \in 1..Len(hashes1) : hashes1[i] = hashes2[i]

\* the bytes of a vector of uint32_t in memory, least significant byte first
\* (x86); either byte order gives different keys to different vectors
RECURSIVE HashBytes(_)
HashBytes(hashes) ==
    IF hashes = <<>> THEN <<>>
    ELSE LET h == Head(hashes)
         IN  <<h[2] % 256, h[2] \div 256, h[1] % 256, h[1] \div 256>> \o HashBytes(Tail(hashes))

\* a key made of the first path of the pair instead of its hashes
HashKeyOfPath(e1, e2) == [i \in 1..Len(filename(e1.path)) |-> Code(filename(e1.path)[i])]

\* std::string hashKey(reinterpret_cast<const char*>(it1->second.data()), ...)
HashKey(e1, e2) == HashBytes(e1.hashes)

\* duplicates[key].insert(p)
SetInsert(d, key, p) ==
    [k \in DOMAIN d \cup {key} |->
        IF k = key THEN (IF key \in DOMAIN d THEN d[key] ELSE {}) \cup {p} ELSE d[k]]

\* the inner loop started one entry too far
InnerStartSkip(it) == it + 2

\* std::next(it1)
InnerStart(it) == it + 1

----------------------------------------------------------------------------
(* The program runs.                                                       *)

\* file contents of the program runs: empty, "X", "X\0" and "Y"
Contents == {<<>>, <<88>>, <<88, 0>>, <<89>>}

Masks == {<<"*">>, <<"*", ".", "T">>, <<"?", ".", "t">>, <<"[">>}

DirectoryLists ==
    {<<Root>>, <<Root, Root>>, <<DirD, Root>>, <<Missing, Root>>, <<FileA, DirD>>,
     <<Root, DotRoot>>}

ExclusionLists == {{}, {DirD}, {Root}, {DirD, DirE}}

AllSame == [f \in FileNodes |-> <<88>>]

Mixed == (FileA :> <<88>>) @@ (FileB :> <<89>>) @@ (FileC :> <<88, 0>>) @@ (FileD :> <<>>)

\* every content of every file, under one plain configuration
ContentRuns ==
    /\ fsContent \in [FileNodes -> Contents]
    /\ unreadable = {}
    /\ directories = <<Root>>
    /\ exclusions = {}
    /\ scanLevel = 1
    /\ maskString = <<"*">>
    /\ blockSize \in 1..MaxBlock

\* every configuration, over two file systems
ConfigurationRuns ==
    /\ fsContent \in {AllSame, Mixed}
    /\ unreadable \in {{}, {FileC}}
    /\ directories \in DirectoryLists
    /\ exclusions \in ExclusionLists
    /\ scanLevel \in {0, 1}
    /\ maskString \in Masks
    /\ blockSize \in 0..MaxBlock

Init ==
    /\ ContentRuns \/ ConfigurationRuns
    /\ pc = "main"
    /\ maskRegex = <<>>
    /\ dirIndex = 0
    /\ pending = {}
    /\ allFiles = <<>>
    /\ it1 = 0
    /\ it2 = 0
    /\ duplicates = <<>>
    /\ stdout = <<>>
    /\ stderr = {}
    /\ enumerated = {}
    /\ repeated = {}
    /\ opened = {}
    /\ verdict = <<>>
    /\ rd = ReadIdle

Message(kind, path) == [kind |-> kind, path |-> path]

\* main, line 154: the regular expression does not compile; nothing catches
\* std::regex_error
MainRegexError ==
    /\ pc = "main"
    /\ ~RegexCompiles(MaskToRegex(maskString))
    /\ pc' = "terminated"
    /\ stderr' = stderr \cup {Message("regex_error", <<>>)}
    /\ UNCHANGED <<inputVars, maskRegex, dirIndex, pending, allFiles, it1, it2,
                   duplicates, stdout, enumerated, repeated, opened, verdict, rd>>

\* main, lines 146-155: the mask is compiled and findDuplicates is entered
Main ==
    /\ pc = "main"
    /\ RegexCompiles(MaskToRegex(maskString))
    /\ maskRegex' = MaskToRegex(maskString)
    /\ dirIndex' = 1
    /\ pc' = "for_dir"
    /\ UNCHANGED <<inputVars, pending, allFiles, it1, it2, duplicates, stdout, stderr,
                   enumerated, repeated, opened, verdict, rd>>

\* lines 81-84: the directory does not exist or is no directory
SkipDirectory ==
    /\ pc = "for_dir"
    /\ dirIndex <= Len(directories)
    /\ ~exists(directories[dirIndex]) \/ ~is_directory(directories[dirIndex])
    /\ stderr' = stderr \cup {Message("not_a_directory", directories[dirIndex])}
    /\ dirIndex' = dirIndex + 1
    /\ UNCHANGED <<inputVars, pc, maskRegex, pending, allFiles, it1, it2, duplicates,
                   stdout, enumerated, repeated, opened, verdict, rd>>

\* lines 85-93: the iterator over the directory is made
OpenDirectory ==
    /\ pc = "for_dir"
    /\ dirIndex <= Len(directories)
    /\ exists(directories[dirIndex]) /\ is_directory(directories[dirIndex])
    /\ pending' = IF scanLevel = 0 THEN directory_iterator(directories[dirIndex])
                                   ELSE recursive_directory_iterator(directories[dirIndex])
    /\ pc' = "for_entry"
    /\ UNCHANGED <<inputVars, maskRegex, dirIndex, allFiles, it1, it2, duplicates,
                   stdout, stderr, enumerated, repeated, opened, verdict, rd>>

\* what every call of processFile leaves behind
Processed(entry) ==
    /\ pending' = pending \ {entry}
    /\ enumerated' = enumerated \cup {entry}
    /\ repeated' = IF entry \in enumerated THEN repeated \cup {entry} ELSE repeated
    /\ verdict' = [e \in DOMAIN verdict \cup {entry} |->
                      IF e = entry THEN Selector(entry) ELSE verdict[e]]

\* processFile returns before readFile
ProcessFileReject ==
    /\ pc = "for_entry"
    /\ \E entry \in NextEntries(pending) :
          /\ Selector(entry) # "admit"
          /\ Processed(entry)
    /\ UNCHANGED <<inputVars, pc, maskRegex, dirIndex, allFiles, it1, it2, duplicates,
                   stdout, stderr, opened, rd>>

\* readFile throws std::runtime_error("Cannot open file: ..."); processFile,
\* findDuplicates and main catch nothing, so the program is terminated
ProcessFileThrow ==
    /\ pc = "for_entry"
    /\ \E entry \in NextEntries(pending) :
          /\ Selector(entry) = "admit"
          /\ Resolve(entry) \in unreadable
          /\ Processed(entry)
          /\ opened' = opened \cup {entry}
          /\ stderr' = stderr \cup {Message("Cannot open file", entry)}
    /\ pc' = "terminated"
    /\ UNCHANGED <<inputVars, maskRegex, dirIndex, allFiles, it1, it2, duplicates,
                   stdout, rd>>

\* readFile with blockSize = 0: every read of 0 bytes succeeds, hashSequence
\* grows until memory runs out, and the program is terminated
ProcessFileExhaust ==
    /\ pc = "for_entry"
    /\ \E entry \in NextEntries(pending) :
          /\ Selector(entry) = "admit"
          /\ Resolve(entry) \notin unreadable
          /\ blockSize = 0
          /\ Processed(entry)
          /\ opened' = opened \cup {entry}
          /\ stderr' = stderr \cup {Message("bad_alloc", entry)}
    /\ pc' = "terminated"
    /\ UNCHANGED <<inputVars, maskRegex, dirIndex, allFiles, it1, it2, duplicates,
                   stdout, rd>>

\* lines 71-72: the file is read and its hashes are stored under its path
ProcessFileStore ==
    /\ pc = "for_entry"
    /\ \E entry \in NextEntries(pending) :
          /\ Selector(entry) = "admit"
          /\ Resolve(entry) \notin unreadable
          /\ blockSize > 0
          /\ Processed(entry)
          /\ opened' = opened \cup {entry}
          /\ allFiles' = MapAssign(allFiles, entry,
                                   readFile(fsContent[Resolve(entry)], blockSize))
    /\ UNCHANGED <<inputVars, pc, maskRegex, dirIndex, it1, it2, duplicates, stdout,
                   stderr, rd>>

\* the iterator is at its end: the next directory
EndDirectory ==
    /\ pc = "for_entry"
    /\ pending = {}
    /\ dirIndex' = dirIndex + 1
    /\ pc' = "for_dir"
    /\ UNCHANGED <<inputVars, maskRegex, pending, allFiles, it1, it2, duplicates,
                   stdout, stderr, enumerated, repeated, opened, verdict, rd>>

\* line 96: all directories are done, it1 = allFiles.begin()
StartCompare ==
    /\ pc = "for_dir"
    /\ dirIndex > Len(directories)
    /\ it1' = 1
    /\ it2' = InnerStart(1)
    /\ pc' = "compare"
    /\ UNCHANGED <<inputVars, maskRegex, dirIndex, pending, allFiles, duplicates,
                   stdout, stderr, enumerated, repeated, opened, verdict, rd>>

\* lines 98-103: one pair is compared
ComparePair ==
    /\ pc = "compare"
    /\ it1 <= Len(allFiles)
    /\ it2 <= Len(allFiles)
    /\ duplicates' =
          IF compareHashes(allFiles[it1].hashes, allFiles[it2].hashes)
          THEN LET hashKey == HashKey(allFiles[it1], allFiles[it2])
               IN  SetInsert(SetInsert(duplicates, hashKey, allFiles[it1].path),
                             hashKey, allFiles[it2].path)
          ELSE duplicates
    /\ it2' = it2 + 1
    /\ UNCHANGED <<inputVars, pc, maskRegex, dirIndex, pending, allFiles, it1, stdout,
                   stderr, enumerated, repeated, opened, verdict, rd>>

\* line 97: it2 is at the end, ++it1
InnerEnd ==
    /\ pc = "compare"
    /\ it1 <= Len(allFiles)
    /\ it2 > Len(allFiles)
    /\ it1' = it1 + 1
    /\ it2' = InnerStart(it1 + 1)
    /\ UNCHANGED <<inputVars, pc, maskRegex, dirIndex, pending, allFiles, duplicates,
                   stdout, stderr, enumerated, repeated, opened, verdict, rd>>

\* line 96: it1 is at the end
OuterEnd ==
    /\ pc = "compare"
    /\ it1 > Len(allFiles)
    /\ pc' = "print"
    /\ UNCHANGED <<inputVars, maskRegex, dirIndex, pending, allFiles, it1, it2,
                   duplicates, stdout, stderr, enumerated, repeated, opened, verdict, rd>>

\* lines 107-112: every group is printed, groups in key order, paths in path order
PrintGroups ==
    /\ pc = "print"
    /\ LET keys == SortedKeys(DOMAIN duplicates)
       IN  stdout' = [i \in 1..Len(keys) |-> SortedPaths(duplicates[keys[i]])]
    /\ pc' = "done"
    /\ UNCHANGED <<inputVars, maskRegex, dirIndex, pending, allFiles, it1, it2,
                   duplicates, stderr, enumerated, repeated, opened, verdict, rd>>

Next ==
    \/ MainRegexError
    \/ Main
    \/ SkipDirectory
    \/ OpenDirectory
    \/ ProcessFileReject
    \/ ProcessFileThrow
    \/ ProcessFileExhaust
    \/ ProcessFileStore
    \/ EndDirectory
    \/ StartCompare
    \/ ComparePair
    \/ InnerEnd
    \/ OuterEnd
    \/ PrintGroups

Spec == Init /\ [][Next]_vars

----------------------------------------------------------------------------
(* Properties of readFile, checked under SpecRead.                         *)

Range(s) == {s[i] : i \in DOMAIN s}

\* the number of blocks of a file of n bytes
Ceil(n, S) == (n + S - 1) \div S

\* block i of a content, with zeros after the content's end
PaddedBlock(content, i, S) ==
    [j \in 1..S |-> IF (i - 1) * S + j <= Len(content) THEN content[(i - 1) * S + j] ELSE 0]

\* a content with zeros up to the next multiple of S
ZeroPadded(content, S) == Resize(content, Ceil(Len(content), S) * S, 0)

\* C5: readFile ends and returns exactly ceil(n / S) hashes, hash i being the
\* CRC-32 of block i of the file, the last block filled up with zeros; so an
\* empty file gives no hash and a multiple of S gives no extra hash.  While the
\* loop runs, it has made as many iterations as it has hashes and never more
\* than ceil(n / S), so it ends.
C5_FingerprintLength ==
    /\ rd.k \in {1, 2} =>
          /\ rd.iterations = Len(rd.st.hashSequence)
          /\ rd.iterations <= Ceil(Len(rd.files[rd.k]), blockSize)
          /\ \A b \in 1..Len(rd.st.hashSequence) :
                rd.st.hashSequence[b]
                    = calculateCRC32(PaddedBlock(rd.files[rd.k], b, blockSize))
    /\ rd.k \in {1, 2, 3} =>
          \A i \in 1..Len(rd.result) :
             /\ Len(rd.result[i]) = Ceil(Len(rd.files[i]), blockSize)
             /\ rd.files[i] = <<>> => rd.result[i] = <<>>
             /\ \A b \in 1..Len(rd.result[i]) :
                   rd.result[i][b]
                       = calculateCRC32(PaddedBlock(rd.files[i], b, blockSize))

\* both files are read: A is one full block, B a full block and a short one
C5_Witness ==
    /\ rd.k = 3
    /\ blockSize = 2
    /\ Len(rd.files[1]) = 2 /\ Len(rd.result[1]) = 1
    /\ Len(rd.files[2]) = 3 /\ Len(rd.result[2]) = 2

\* C9 as stated: files that differ in a byte or in length have different
\* fingerprints.
C9_DifferentFilesDiffer ==
    rd.k = 3 => (rd.files[1] # rd.files[2] => rd.result[1] # rd.result[2])

\* C9 amended: two files have the same fingerprint exactly when they are equal
\* once each is filled up with zeros to a multiple of the block size.
C9_FingerprintsEqualIffPaddedEqual ==
    rd.k = 3 =>
        (rd.result[1] = rd.result[2]
            <=> ZeroPadded(rd.files[1], blockSize) = ZeroPadded(rd.files[2], blockSize))

\* two different files with one fingerprint
C9_Witness ==
    /\ rd.k = 3
    /\ rd.files[1] # rd.files[2]
    /\ rd.result[1] = rd.result[2]
    /\ rd.result[1] # <<>>

----------------------------------------------------------------------------
(* Properties of the program, checked under Spec.                          *)

\* the paths of allFiles, and the hashes stored under a path
Candidates == {allFiles[i].path : i \in 1..Len(allFiles)}
Fingerprint(p) == (CHOOSE e \in Range(allFiles) : e.path = p).hashes
Entries(p) == {i \in 1..Len(allFiles) : allFiles[i].path = p}

\* the groups printed, each as the set of its paths
Emitted == {Range(stdout[i]) : i \in 1..Len(stdout)}

\* the candidates with the fingerprint of p
Class(p) == {q \in Candidates : Fingerprint(q) = Fingerprint(p)}

\* C1: every group printed has at least two members, the members of a group
\* have fingerprints of the same length that agree at every position, and a
\* candidate whose fingerprint no other candidate has is in no group.
C1_GroupsAreDuplicates ==
    pc = "done" =>
        /\ \A i \in 1..Len(stdout) :
              /\ Len(stdout[i]) >= 2
              /\ \A p \in Range(stdout[i]), q \in Range(stdout[i]) :
                    /\ p \in Candidates /\ q \in Candidates
                    /\ Len(Fingerprint(p)) = Len(Fingerprint(q))
                    /\ \A b \in 1..Len(Fingerprint(p)) : Fingerprint(p)[b] = Fingerprint(q)[b]
        /\ \A p \in Candidates :
              (\A q \in Candidates \ {p} : Fingerprint(q) # Fingerprint(p))
                  => \A i \in 1..Len(stdout) : p \notin Range(stdout[i])

\* a group is printed and some candidate is in none
C1_Witness ==
    /\ pc = "done"
    /\ Len(stdout) >= 1
    /\ \E p \in Candidates : \A g \in Emitted : p \notin g

\* C2: a candidate is in exactly one group if and only if another candidate has
\* its fingerprint; no candidate is in two groups; two candidates share a group
\* exactly when their fingerprints are equal; the groups are the classes of
\* equal fingerprints that have at least two members.
C2_GroupsAreEqualityClasses ==
    pc = "done" =>
        /\ \A p \in Candidates :
              /\ Cardinality({i \in 1..Len(stdout) : p \in Range(stdout[i])}) <= 1
              /\ (Cardinality({i \in 1..Len(stdout) : p \in Range(stdout[i])}) = 1)
                    <=> (\E q \in Candidates \ {p} : Fingerprint(q) = Fingerprint(p))
        /\ \A p \in Candidates :
              \A q \in Candidates \ {p} :
                 (\E g \in Emitted : p \in g /\ q \in g) <=> Fingerprint(p) = Fingerprint(q)
        /\ Emitted = {Class(p) : p \in {c \in Candidates : Cardinality(Class(c)) >= 2}}

\* two groups are printed
C2_Witness ==
    /\ pc = "done"
    /\ Len(stdout) = 2
    /\ Cardinality(Candidates) = 4

\* the directories that are scanned, and the entries the scan admits
Scanned == {directories[i] : i \in {j \in 1..Len(directories) :
                                       exists(directories[j]) /\ is_directory(directories[j])}}
Yielded ==
    UNION {IF scanLevel = 0 THEN directory_iterator(d) ELSE recursive_directory_iterator(d) :
              d \in Scanned}
Admitted == {e \in Yielded : Selector(e) = "admit"}
AdmittedClass(p) ==
    {q \in Admitted : readFile(fsContent[Resolve(q)], blockSize)
                          = readFile(fsContent[Resolve(p)], blockSize)}

\* C8: the groups printed depend on the files and the configuration alone, not
\* on the order in which the entries were yielded, read and compared: they are
\* the classes of equal fingerprints, of two members or more, of the admitted
\* entries, and every group is stored under the bytes of its members'
\* fingerprint.
C8_GroupsIndependentOfOrder ==
    pc = "done" =>
        /\ Emitted = {AdmittedClass(p) : p \in {c \in Admitted : Cardinality(AdmittedClass(c)) >= 2}}
        /\ \A key \in DOMAIN duplicates :
              \A p \in duplicates[key] : HashBytes(Fingerprint(p)) = key

\* r/d is scanned before r, so r/d/A.T is read before r/a.t and compared after
\* it, and the two are printed in one group
C8_Witness ==
    /\ pc = "done"
    /\ directories = <<DirD, Root>>
    /\ \E g \in Emitted : FileA \in g /\ FileC \in g

\* C10: a path that is yielded more than once has one entry in allFiles, never
\* two, and every group printed holds at least two different paths, each
\* listed once.
C10_OneEntryPerPath ==
    /\ \A p \in enumerated : Cardinality(Entries(p)) <= 1
    /\ \A p \in repeated :
          (verdict[p] = "admit" /\ pc # "terminated") => Cardinality(Entries(p)) = 1
    /\ pc = "done" =>
          \A i \in 1..Len(stdout) :
             /\ Cardinality(Range(stdout[i])) >= 2
             /\ Cardinality(Range(stdout[i])) = Len(stdout[i])

\* a path read twice is printed in a group
C10_Witness ==
    /\ pc = "done"
    /\ \E p \in repeated : \E g \in Emitted : p \in g

----------------------------------------------------------------------------
(* The candidate selector and the errors.                                  *)

\* the four rules of the selector, as conditions to pass
IsRegular(e) == is_regular_file(e)
ParentNotExcluded(e) == \A x \in exclusions : parent_path(e) # x
SizeAtLeastMinimum(e) == ~(Len(fsContent[Resolve(e)]) < 1)
NameMatches(e) == regex_match(filename(e), maskRegex)

FirstRejectingRule(e) ==
    CASE ~IsRegular(e) -> "not_regular"
      [] IsRegular(e) /\ ~ParentNotExcluded(e) -> "excluded"
      [] IsRegular(e) /\ ParentNotExcluded(e) /\ ~SizeAtLeastMinimum(e) -> "too_small"
      [] IsRegular(e) /\ ParentNotExcluded(e) /\ SizeAtLeastMinimum(e) /\ ~NameMatches(e)
            -> "mask"
      [] OTHER -> "admit"

\* the mask *.TXT and the names report.txt and report.txtx
MaskTXT == <<"*", ".", "T", "X", "T">>
ReportTxt == <<"r", "e", "p", "o", "r", "t", ".", "t", "x", "t">>

\* C6: an entry is handed to readFile if and only if it is a regular file, its
\* parent path is no exclusion, its size is not below the minimum size 1 and its
\* whole filename matches the mask's expression with case ignored; the first
\* rule that fails decides; an entry that is rejected is never opened and never
\* stored; the mask *.TXT admits report.txt and rejects report.txtx.
C6_SelectorRules ==
    /\ \A e \in enumerated :
          /\ verdict[e] = FirstRejectingRule(e)
          /\ e \in opened <=>
                (IsRegular(e) /\ ParentNotExcluded(e) /\ SizeAtLeastMinimum(e)
                    /\ NameMatches(e))
          /\ verdict[e] # "admit" => (e \notin opened /\ e \notin Candidates)
    /\ \A e \in opened : e \in enumerated /\ fsContent[Resolve(e)] # <<>>
    /\ Candidates \subseteq opened
    /\ regex_match(ReportTxt, MaskToRegex(MaskTXT))
    /\ ~regex_match(Append(ReportTxt, "x"), MaskToRegex(MaskTXT))

\* one scan in which every rule has rejected an entry and an entry was admitted
C6_Witness ==
    /\ pc = "done"
    /\ {verdict[e] : e \in enumerated}
          = {"not_regular", "excluded", "too_small", "mask", "admit"}
    /\ opened # {}

\* the entry is in the directory that the exclusion x names, at any depth
Beneath(e, x) == IsPrefix(Resolve(x), Resolve(parent_path(e)))

InGroup(e) ==
    \/ \E key \in DOMAIN duplicates : e \in duplicates[key]
    \/ \E i \in 1..Len(stdout) : e \in Range(stdout[i])

\* C7 as stated, of a scan that has run to its end: no file beneath an excluded
\* directory, at any depth, is read or grouped.
C7_NothingBeneathExcludedIsRead ==
    pc = "done" =>
        \A e \in enumerated :
            (\E x \in exclusions : Beneath(e, x)) => (e \notin opened /\ ~InGroup(e))

\* C7 amended: a file whose parent path, as the scan spells it, is one of the
\* exclusions is never read, never stored and never in a group, at either scan
\* level.
C7_ParentExcludedNeverRead ==
    \A e \in enumerated :
        parent_path(e) \in exclusions
            => (e \notin opened /\ e \notin Candidates /\ ~InGroup(e))

\* a recursive scan is done; a file of an excluded directory was left out
\* although a file outside it with the same bytes was read and grouped
C7_Witness ==
    /\ pc = "done"
    /\ scanLevel = 1
    /\ \E e \in enumerated :
          /\ is_regular_file(e)
          /\ parent_path(e) \in exclusions
          /\ \E o \in opened :
                /\ fsContent[Resolve(o)] = fsContent[Resolve(e)]
                /\ InGroup(o)

\* C3 as stated: a file that cannot be opened is reported with its path and
\* does not end the run.
C3_UnreadableFileDoesNotAbort ==
    \A e \in opened :
        Resolve(e) \in unreadable
            => (Message("Cannot open file", e) \in stderr /\ pc # "terminated")

\* a configuration error: a mask that does not compile, a block size that is
\* not positive, a directory that does not exist or is no directory
ConfigurationError ==
    \/ ~RegexCompiles(MaskToRegex(maskString))
    \/ blockSize <= 0
    \/ \E i \in 1..Len(directories) :
          ~exists(directories[i]) \/ ~is_directory(directories[i])

\* C4 as stated: with a configuration error no entry is enumerated, no file is
\* read and no group is printed.
C4_ConfigurationErrorBeforeScan ==
    (pc # "idle" /\ ConfigurationError)
        => (enumerated = {} /\ opened = {} /\ stdout = <<>>)

====
